---- MODULE Spec2Model ----
(***************************************************************************)
(* Invoice lifecycle and payment reconciliation of InvoiceFlow.            *)
(*                                                                         *)
(* The tables of the relational store are the state.  Every route handler  *)
(* is a sequence of awaited storage calls; each awaited call is one atomic *)
(* step, and the steps of different requests interleave.  Money is kept in *)
(* cents; a DECIMAL(12,2) column rounds what JavaScript computed to a      *)
(* whole number of cents when the row is written.                          *)
(***************************************************************************)
EXTENDS Integers, Sequences, FiniteSets, TLC

\* ---------------------------------------------------------------- bounds
MaxInFlight == 2      \* request handlers that may be between two awaits
MaxRequests == 3      \* authenticated API requests accepted in a run
MaxEvents   == 2      \* webhook events delivered in a run
MaxClock    == 1      \* last tick of the wall clock
TicksPerDay == 2      \* clock ticks in a day
DaysPerMonth == 2     \* days in a month
MonthsPerYear == 2    \* months in a year
MaxPlanRequests == 6  \* API requests accepted in a run of the plan-limit workload
MaxClientRequests == 4  \* API requests accepted in a run of the client workloads
MaxSubscriptionEvents == 3  \* webhook events delivered in a run of the subscription workload
MaxSendRequests == 4    \* API requests accepted in a run of the send workload
MaxCheckoutRequests == 3  \* API requests accepted in a run of the checkout workload

\* ------------------------------------------------------ program constants
FreeInvoiceLimit == 5
FreeClientLimit == 2

\* ------------------------------------------------------------ vocabulary
Users       == {"u1", "u2"}
\* the processor's customer and subscription of a tenant
CustomerOf(u)     == IF u = "u1" THEN "cus_1" ELSE "cus_2"
SubscriptionOf(u) == IF u = "u1" THEN "sub_1" ELSE "sub_2"
\* the subscriptions a tenant's checkouts may have started at the processor
SubscriptionsOf(u) == {SubscriptionOf(u), IF u = "u1" THEN "sub_3" ELSE "sub_4"}
Statuses    == {"draft", "pending", "paid", "overdue", "cancelled"}
Slots       == 1..MaxInFlight
NULL        == 0 - 1         \* SQL NULL in a numeric or timestamp column
NullText    == "null"        \* SQL NULL in a text column
Undefined   == 0 - 1         \* a numeric body field the request does not carry
UndefinedText == "undefined" \* a text body field the request does not carry
Idle        == [op |-> "idle"]
NoSnap      == [none |-> TRUE]

\* line items a request body may carry (quantity, price in cents)
ItemsA == << [quantity |-> 2, price |-> 5000], [quantity |-> 1, price |-> 2500] >>
ItemsB == << [quantity |-> 1, price |-> 1003] >>

\* req.body of POST /api/invoices (tax_rate and discount_amount default to 0)
CreateBody(c, items, tax, disc) ==
    [client_id |-> c, items |-> items, tax_rate |-> tax, discount_amount |-> disc]

\* req.body of PUT /api/invoices/:id
UpdateBody(has_items, items, status, tax, disc) ==
    [has_items |-> has_items, items |-> items, status |-> status,
     tax_rate |-> tax, discount_amount |-> disc]

VARIABLES
    users,            \* users table: user id -> [plan]
    clients,          \* clients table: set of rows
    nextClient,       \* number of the next fresh client id (uuidv4)
    subscriptions,    \* subscriptions table: set of rows
    invoices,         \* invoices table: set of rows
    invoice_items,    \* invoice_items table: set of rows
    payments,         \* payments table: sequence of rows in insertion order
    audit_logs,       \* audit_logs table: sequence of rows
    payment_intents,  \* payment intents held by the payment processor
    customers,        \* customers held by the payment processor
    nextId,           \* next fresh invoice id (uuidv4)
    now,              \* wall clock
    reqs,             \* slot -> request between two awaits, or Idle
    started,          \* API requests accepted so far
    delivered,        \* webhook events delivered so far
    last              \* status code of the response most recently sent

vars == << users, clients, nextClient, subscriptions, invoices, invoice_items,
           payments, audit_logs, payment_intents, customers, nextId, now, reqs,
           started, delivered, last >>

\* ------------------------------------------------------------- time
TicksPerMonth == TicksPerDay * DaysPerMonth
TicksPerYear  == TicksPerMonth * MonthsPerYear

\* the calendar month a time falls in
getMonth(t) == t \div TicksPerMonth

\* new Date().getFullYear()
getFullYear(t) == t \div TicksPerYear

\* new Date(new Date().setDate(1)): day of month set to 1, time of day kept
setDate1(t) == (t \div TicksPerMonth) * TicksPerMonth + (t % TicksPerDay)

\* ------------------------------------------------------------- arithmetic
RECURSIVE SumSeq(_)
SumSeq(s) == IF s = << >> THEN 0 ELSE Head(s) + SumSeq(Tail(s))

\* items.reduce((sum, item) => sum + item.quantity * item.price, 0), in cents
Subtotal(items) == SumSeq([k \in 1..Len(items) |-> items[k].quantity * items[k].price])

\* a value in hundredths of a cent as a DECIMAL(12,2) column stores it
RoundCents(x) == IF x >= 0 THEN (x + 50) \div 100 ELSE -((50 - x) \div 100)

\* JavaScript a || b on numbers: undefined and 0 are falsy
OrElse(a, b) == IF a = Undefined \/ a = 0 THEN b ELSE a

\* rows inserted into invoice_items for one invoice
ItemRows(id, items) ==
    { [invoice_id |-> id, sort_order |-> k - 1, quantity |-> items[k].quantity,
       unit_price |-> items[k].price, amount |-> items[k].quantity * items[k].price]
      : k \in 1..Len(items) }

\* ------------------------------------------------------------- store
InvoiceIds == {i.id : i \in invoices}
InvoiceById(id) == CHOOSE i \in invoices : i.id = id
OwnedBy(id, u) == \E i \in invoices : i.id = id /\ i.user_id = u
ItemsOf(id) == {r \in invoice_items : r.invoice_id = id}
PaymentsIn(P, id) == SelectSeq(P, LAMBDA p : p.invoice_id = id)
PaymentsOf(id) == PaymentsIn(payments, id)

\* DELETE FROM invoices WHERE id = id on tables that do not cascade
DeleteCascade_InvoiceOnly(id) ==
    /\ invoices' = {i \in invoices : i.id # id}
    /\ UNCHANGED << invoice_items, payments >>

\* DELETE FROM invoices WHERE id = id, with ON DELETE CASCADE
DeleteCascade(id) ==
    /\ invoices' = {i \in invoices : i.id # id}
    /\ invoice_items' = {r \in invoice_items : r.invoice_id # id}
    /\ payments' = SelectSeq(payments, LAMBDA p : p.invoice_id # id)

\* UNIQUE(user_id, invoice_number)
UniqueNumber(u, number) == ~ \E i \in invoices : i.user_id = u /\ i.invoice_number = number

\* ------------------------------------------------------------- requests
Begin(s) == reqs[s] = Idle

Accept(s, r) ==
    /\ Begin(s)
    /\ reqs' = [reqs EXCEPT ![s] = r]
    /\ started' = started + 1
    /\ UNCHANGED delivered

\* the webhook route takes an event whose signature verified
AcceptEvent(s, r) ==
    /\ reqs[s] = Idle
    /\ reqs' = [reqs EXCEPT ![s] = r]
    /\ delivered' = delivered + 1
    /\ UNCHANGED started

Goto(s, pc) == reqs' = [reqs EXCEPT ![s].pc = pc]

Respond(s, code) ==
    /\ last' = code
    /\ reqs' = [reqs EXCEPT ![s] = Idle]

At(s, op, pc) == reqs[s].op = op /\ reqs[s].pc = pc

Init ==
    /\ users = [u \in Users |->
                   [plan |-> IF u = "u1" THEN "pro" ELSE "free",
                    plan_expires_at |-> IF u = "u1" THEN TicksPerMonth ELSE NULL,
                    stripe_customer_id |-> CustomerOf(u),
                    stripe_subscription_id |-> IF u = "u1" THEN SubscriptionOf(u)
                                               ELSE NullText]]
    /\ clients = {[id |-> "c1", user_id |-> "u1", email |-> "a@x.com", is_active |-> TRUE],
                  [id |-> "c2", user_id |-> "u2", email |-> "a@x.com", is_active |-> TRUE]}
    /\ nextClient = 3
    /\ subscriptions = {[user_id |-> "u1",
                         stripe_subscription_id |-> SubscriptionOf("u1"),
                         stripe_customer_id |-> CustomerOf("u1"),
                         plan |-> "pro", status |-> "active",
                         current_period_end |-> TicksPerMonth,
                         cancelled_at |-> NULL]}
    /\ invoices = {}
    /\ invoice_items = {}
    /\ payments = << >>
    /\ audit_logs = << >>
    /\ payment_intents = {}
    /\ customers = {CustomerOf(u) : u \in Users}
    /\ nextId = 1
    /\ now = 0
    /\ reqs = [s \in Slots |-> Idle]
    /\ started = 0
    /\ delivered = 0
    /\ last = 0

Tick ==
    /\ now < MaxClock
    /\ now' = now + 1
    /\ UNCHANGED << users, clients, nextClient, subscriptions, invoices, invoice_items,
                    payments, audit_logs, payment_intents, nextId, reqs, started,
                    delivered, last, customers >>

\* ------------------------------------------------- POST /api/invoices
CreateInvoice_Auth(s, u, b) ==
    /\ Accept(s, [op |-> "create", user |-> u, plan |-> users[u].plan, id |-> 0,
                  pc |-> IF users[u].plan = "free" THEN "limit" ELSE "client",
                  body |-> b, snap |-> NoSnap])
    /\ UNCHANGED << users, clients, nextClient, subscriptions, invoices, invoice_items,
                    payments, audit_logs, payment_intents, nextId, now, last,
                    customers >>

CreateInvoice_PlanLimit(s) ==
    /\ At(s, "create", "limit")
    /\ LET count == Cardinality({i \in invoices : i.user_id = reqs[s].user
                                                  /\ i.created_at >= setDate1(now)})
       IN  IF count >= FreeInvoiceLimit THEN Respond(s, 403)
           ELSE Goto(s, "client") /\ UNCHANGED last
    /\ UNCHANGED << users, clients, nextClient, subscriptions, invoices, invoice_items,
                    payments, audit_logs, payment_intents, nextId, now, started,
                    delivered, customers >>

CreateInvoice_Client(s) ==
    /\ At(s, "create", "client")
    /\ IF \E c \in clients : c.id = reqs[s].body.client_id /\ c.user_id = reqs[s].user
       THEN Goto(s, "count") /\ UNCHANGED last
       ELSE Respond(s, 404)
    /\ UNCHANGED << users, clients, nextClient, subscriptions, invoices, invoice_items,
                    payments, audit_logs, payment_intents, nextId, now, started,
                    delivered, customers >>

\* count + 1 of `INV-${year}-${String(count + 1).padStart(4, '0')}`
NextOrdinal(u) == Cardinality({i \in invoices : i.user_id = u}) + 1

CreateInvoice_Count(s) ==
    /\ At(s, "create", "count")
    /\ reqs' = [reqs EXCEPT ![s].pc = "insert",
                            ![s].snap = [invoice_number |->
                                            [year |-> getFullYear(now),
                                             ordinal |-> NextOrdinal(reqs[s].user)]]]
    /\ UNCHANGED << users, clients, nextClient, subscriptions, invoices, invoice_items,
                    payments, audit_logs, payment_intents, nextId, now, started,
                    delivered, last, customers >>

\* the row POST / inserts for request r under the fresh id at time t
NewInvoice(r, id, t) ==
    LET subtotal == Subtotal(r.body.items)
        taxX     == subtotal * r.body.tax_rate
    IN  [id |-> id, user_id |-> r.user, client_id |-> r.body.client_id,
         invoice_number |-> r.snap.invoice_number,
         status |-> "pending",
         subtotal |-> subtotal,
         tax_rate |-> r.body.tax_rate,
         tax_amount |-> RoundCents(taxX),
         discount_amount |-> r.body.discount_amount,
         total |-> RoundCents(subtotal * 100 + taxX - r.body.discount_amount * 100),
         paid_at |-> NULL, paid_amount |-> NULL, payment_method |-> NullText,
         stripe_payment_intent_id |-> NULL,
         reminder_sent_at |-> NULL, reminder_count |-> 0,
         created_at |-> t]

\* an invoices table without UNIQUE(user_id, invoice_number)
InsertAllowed_NoUnique(row) ==
    /\ \E c \in clients : c.id = row.client_id
    /\ row.status \in Statuses

\* the constraints of CREATE TABLE invoices a new row must meet
InsertAllowed(row) ==
    /\ UniqueNumber(row.user_id, row.invoice_number)
    /\ \E c \in clients : c.id = row.client_id
    /\ row.status \in Statuses

CreateInvoice_Insert(s) ==
    /\ At(s, "create", "insert")
    /\ LET row == NewInvoice(reqs[s], nextId, now)
       IN  IF InsertAllowed(row)
           THEN /\ invoices' = invoices \cup {row}
                /\ nextId' = nextId + 1
                /\ reqs' = [reqs EXCEPT ![s].pc = "items", ![s].id = row.id]
                /\ UNCHANGED last
           ELSE /\ Respond(s, 500)
                /\ UNCHANGED << invoices, nextId >>
    /\ UNCHANGED << users, clients, nextClient, subscriptions, invoice_items, payments,
                    audit_logs, payment_intents, now, started, delivered, customers >>

CreateInvoice_Items(s, ok) ==
    /\ At(s, "create", "items")
    /\ IF ok /\ reqs[s].id \in InvoiceIds
       THEN /\ invoice_items' = invoice_items \cup ItemRows(reqs[s].id, reqs[s].body.items)
            /\ Goto(s, "audit")
       ELSE /\ Goto(s, "rollback")
            /\ UNCHANGED invoice_items
    /\ UNCHANGED << users, clients, nextClient, subscriptions, invoices, payments,
                    audit_logs, payment_intents, nextId, now, started, delivered, last,
                    customers >>

\* a create that answers 500 and leaves the inserted invoice row in place
CreateInvoice_Rollback_Keep(s) ==
    /\ At(s, "create", "rollback")
    /\ Respond(s, 500)
    /\ UNCHANGED << users, clients, nextClient, subscriptions, invoices, invoice_items,
                    payments, audit_logs, payment_intents, nextId, now, started,
                    delivered, customers >>

CreateInvoice_Rollback(s) ==
    /\ At(s, "create", "rollback")
    /\ DeleteCascade(reqs[s].id)
    /\ Respond(s, 500)
    /\ UNCHANGED << users, clients, nextClient, subscriptions, audit_logs,
                    payment_intents, nextId, now, started, delivered, customers >>

CreateInvoice_Audit(s) ==
    /\ At(s, "create", "audit")
    /\ audit_logs' = Append(audit_logs, [user_id |-> reqs[s].user,
                                         action |-> "INVOICE_CREATED",
                                         entity_id |-> reqs[s].id,
                                         new_values |-> [invoice_number |->
                                                            reqs[s].snap.invoice_number],
                                         created_at |-> now])
    /\ Respond(s, 201)
    /\ UNCHANGED << users, clients, nextClient, subscriptions, invoices, invoice_items,
                    payments, payment_intents, nextId, now, started, delivered,
                    customers >>

\* ------------------------------------------------- PUT /api/invoices/:id
UpdateInvoice_Auth(s, u, id, b) ==
    /\ Accept(s, [op |-> "update", user |-> u, plan |-> users[u].plan, id |-> id,
                  pc |-> "fetch", body |-> b, snap |-> NoSnap])
    /\ UNCHANGED << users, clients, nextClient, subscriptions, invoices, invoice_items,
                    payments, audit_logs, payment_intents, nextId, now, last,
                    customers >>

\* a PUT /:id whose guard never refuses
CannotModify_Never(existing, status) == FALSE

\* "Can't edit paid invoices": the guard of PUT /:id
CannotModify(existing, status) == existing.status = "paid" /\ status # "paid"

UpdateInvoice_Fetch(s) ==
    /\ At(s, "update", "fetch")
    /\ IF ~ OwnedBy(reqs[s].id, reqs[s].user) THEN Respond(s, 404)
       ELSE LET existing == InvoiceById(reqs[s].id)
            IN  IF CannotModify(existing, reqs[s].body.status) THEN Respond(s, 400)
                ELSE /\ reqs' = [reqs EXCEPT
                            ![s].pc = IF reqs[s].body.has_items THEN "delete_items"
                                      ELSE "update",
                            ![s].snap = [tax_rate |-> existing.tax_rate,
                                         discount_amount |-> existing.discount_amount,
                                         \* history, read by properties only
                                         before |-> [existing |-> existing,
                                                     items |-> ItemsOf(existing.id)],
                                         insert_error |-> FALSE]]
                     /\ UNCHANGED last
    /\ UNCHANGED << users, clients, nextClient, subscriptions, invoices, invoice_items,
                    payments, audit_logs, payment_intents, nextId, now, started,
                    delivered, customers >>

UpdateInvoice_DeleteItems(s) ==
    /\ At(s, "update", "delete_items")
    /\ invoice_items' = {r \in invoice_items : r.invoice_id # reqs[s].id}
    /\ Goto(s, "insert_items")
    /\ UNCHANGED << users, clients, nextClient, subscriptions, invoices, payments,
                    audit_logs, payment_intents, nextId, now, started, delivered, last,
                    customers >>

\* await supabase.from('invoice_items').insert(newItems): ok is FALSE when the
\* store refuses the rows; the result of the call is not looked at
UpdateInvoice_InsertItems(s, ok) ==
    /\ At(s, "update", "insert_items")
    /\ LET stored == ok /\ reqs[s].id \in InvoiceIds
       IN  /\ invoice_items' = IF stored
                               THEN invoice_items
                                    \cup ItemRows(reqs[s].id, reqs[s].body.items)
                               ELSE invoice_items
           /\ reqs' = [reqs EXCEPT ![s].pc = "update",
                                   ![s].snap.insert_error = ~ stored]
    /\ UNCHANGED << users, clients, nextClient, subscriptions, invoices, payments,
                    audit_logs, payment_intents, nextId, now, started, delivered, last,
                    customers >>

\* the invoice row after UPDATE ... SET updateData, for the request r
ApplyUpdateData(i, r) ==
    LET b        == r.body
        subtotal == Subtotal(b.items)
        taxX     == subtotal * OrElse(b.tax_rate, r.snap.tax_rate)
        totalX   == subtotal * 100 + taxX
                    - OrElse(b.discount_amount, r.snap.discount_amount) * 100
    IN  [i EXCEPT
           !.status          = IF b.status = UndefinedText THEN @ ELSE b.status,
           !.tax_rate        = IF b.tax_rate = Undefined THEN @ ELSE b.tax_rate,
           !.discount_amount = IF b.discount_amount = Undefined THEN @
                               ELSE b.discount_amount,
           !.subtotal        = IF b.has_items THEN subtotal ELSE @,
           !.tax_amount      = IF b.has_items THEN RoundCents(taxX) ELSE @,
           !.total           = IF b.has_items THEN RoundCents(totalX) ELSE @]

UpdateInvoice_Update(s) ==
    /\ At(s, "update", "update")
    /\ IF reqs[s].id \in InvoiceIds
          /\ (reqs[s].body.status = UndefinedText \/ reqs[s].body.status \in Statuses)
       THEN /\ invoices' = {IF i.id = reqs[s].id
                     THEN ApplyUpdateData(i, reqs[s])
                     ELSE i : i \in invoices}
            /\ Respond(s, 200)
       ELSE /\ Respond(s, 500)
            /\ UNCHANGED invoices
    /\ UNCHANGED << users, clients, nextClient, subscriptions, invoice_items, payments,
                    audit_logs, payment_intents, nextId, now, started, delivered,
                    customers >>

\* ------------------------------------------------- requirePlan('pro', 'business')
requirePlan(plan) == plan \in {"pro", "business"}

\* ------------------------------------------------- POST /api/invoices/:id/send
SendInvoice_Auth(s, u, id) ==
    /\ IF requirePlan(users[u].plan)
       THEN /\ Accept(s, [op |-> "send", user |-> u, plan |-> users[u].plan, id |-> id,
                          pc |-> "fetch", body |-> NoSnap, snap |-> NoSnap])
            /\ UNCHANGED last
       ELSE /\ Begin(s)
            /\ started' = started + 1
            /\ last' = 403
            /\ UNCHANGED << reqs, delivered >>
    /\ UNCHANGED << users, clients, nextClient, subscriptions, invoices, invoice_items,
                    payments, audit_logs, payment_intents, nextId, now, customers >>

SendInvoice_Fetch(s) ==
    /\ At(s, "send", "fetch")
    /\ IF ~ OwnedBy(reqs[s].id, reqs[s].user) THEN Respond(s, 404)
       ELSE /\ reqs' = [reqs EXCEPT ![s].pc = "email",
                                    ![s].snap = [status |-> InvoiceById(reqs[s].id).status]]
            /\ UNCHANGED last
    /\ UNCHANGED << users, clients, nextClient, subscriptions, invoices, invoice_items,
                    payments, audit_logs, payment_intents, nextId, now, started,
                    delivered, customers >>

\* generateInvoicePDF and sendInvoiceEmail; sent is FALSE when either throws
SendInvoice_Email(s, sent) ==
    /\ At(s, "send", "email")
    /\ IF ~ sent THEN Respond(s, 500)
       ELSE IF reqs[s].snap.status = "draft" THEN Goto(s, "update") /\ UNCHANGED last
       ELSE Respond(s, 200)
    /\ UNCHANGED << users, clients, nextClient, subscriptions, invoices, invoice_items,
                    payments, audit_logs, payment_intents, nextId, now, started,
                    delivered, customers >>

SendInvoice_Update(s) ==
    /\ At(s, "send", "update")
    /\ invoices' = {IF i.id = reqs[s].id
                     THEN [i EXCEPT !.status = "pending"]
                     ELSE i : i \in invoices}
    /\ Respond(s, 200)
    /\ UNCHANGED << users, clients, nextClient, subscriptions, invoice_items, payments,
                    audit_logs, payment_intents, nextId, now, started, delivered,
                    customers >>

\* ------------------------------------------------- POST /api/invoices/:id/remind
RemindInvoice_Auth(s, u, id) ==
    /\ IF requirePlan(users[u].plan)
       THEN /\ Accept(s, [op |-> "remind", user |-> u, plan |-> users[u].plan, id |-> id,
                          pc |-> "fetch", body |-> NoSnap, snap |-> NoSnap])
            /\ UNCHANGED last
       ELSE /\ Begin(s)
            /\ started' = started + 1
            /\ last' = 403
            /\ UNCHANGED << reqs, delivered >>
    /\ UNCHANGED << users, clients, nextClient, subscriptions, invoices, invoice_items,
                    payments, audit_logs, payment_intents, nextId, now, customers >>

RemindInvoice_Fetch(s) ==
    /\ At(s, "remind", "fetch")
    /\ IF ~ OwnedBy(reqs[s].id, reqs[s].user) THEN Respond(s, 404)
       ELSE IF InvoiceById(reqs[s].id).status = "paid" THEN Respond(s, 400)
       ELSE /\ reqs' = [reqs EXCEPT ![s].pc = "update",
                           ![s].snap = [reminder_count |->
                                           InvoiceById(reqs[s].id).reminder_count]]
            /\ UNCHANGED last
    /\ UNCHANGED << users, clients, nextClient, subscriptions, invoices, invoice_items,
                    payments, audit_logs, payment_intents, nextId, now, started,
                    delivered, customers >>

RemindInvoice_Update(s) ==
    /\ At(s, "remind", "update")
    /\ invoices' = {IF i.id = reqs[s].id
                     THEN [i EXCEPT !.reminder_sent_at = now,
                          !.reminder_count = reqs[s].snap.reminder_count + 1]
                     ELSE i : i \in invoices}
    /\ Respond(s, 200)
    /\ UNCHANGED << users, clients, nextClient, subscriptions, invoice_items, payments,
                    audit_logs, payment_intents, nextId, now, started, delivered,
                    customers >>

\* ------------------------------------------------- POST /api/invoices/:id/mark-paid
MarkPaid_Auth(s, u, id, method) ==
    /\ Accept(s, [op |-> "mark_paid", user |-> u, plan |-> users[u].plan, id |-> id,
                  pc |-> "fetch", body |-> [payment_method |-> method], snap |-> NoSnap])
    /\ UNCHANGED << users, clients, nextClient, subscriptions, invoices, invoice_items,
                    payments, audit_logs, payment_intents, nextId, now, last,
                    customers >>

MarkPaid_Fetch(s) ==
    /\ At(s, "mark_paid", "fetch")
    /\ IF ~ OwnedBy(reqs[s].id, reqs[s].user) THEN Respond(s, 404)
       ELSE /\ reqs' = [reqs EXCEPT ![s].pc = "update",
                           ![s].snap = [total |-> InvoiceById(reqs[s].id).total,
                                        at |-> now]]
            /\ UNCHANGED last
    /\ UNCHANGED << users, clients, nextClient, subscriptions, invoices, invoice_items,
                    payments, audit_logs, payment_intents, nextId, now, started,
                    delivered, customers >>

\* the invoice row after UPDATE ... SET status = 'paid', paid_at, paid_amount, payment_method
SetPaid(i, at, amount, method) ==
    [i EXCEPT !.status = "paid", !.paid_at = at, !.paid_amount = amount,
              !.payment_method = method]

MarkPaid_Update(s) ==
    /\ At(s, "mark_paid", "update")
    /\ invoices' = {IF i.id = reqs[s].id
                     THEN SetPaid(i, reqs[s].snap.at, reqs[s].snap.total,
                          reqs[s].body.payment_method)
                     ELSE i : i \in invoices}
    /\ Goto(s, "payment")
    /\ UNCHANGED << users, clients, nextClient, subscriptions, invoice_items, payments,
                    audit_logs, payment_intents, nextId, now, started, delivered, last,
                    customers >>

\* INSERT INTO payments: refused when the invoice row is gone (REFERENCES invoices(id))
InsertPayment(p) ==
    IF p.invoice_id \in InvoiceIds THEN Append(payments, p) ELSE payments

MarkPaid_Payment(s) ==
    /\ At(s, "mark_paid", "payment")
    /\ payments' = InsertPayment([invoice_id |-> reqs[s].id, user_id |-> reqs[s].user,
                                  amount |-> reqs[s].snap.total,
                                  payment_method |-> reqs[s].body.payment_method,
                                  stripe_payment_id |-> NULL, status |-> "completed"])
    /\ Respond(s, 200)
    /\ UNCHANGED << users, clients, nextClient, subscriptions, invoices, invoice_items,
                    audit_logs, payment_intents, nextId, now, started, delivered,
                    customers >>

\* ------------------------------------------------- DELETE /api/invoices/:id
DeleteInvoice_Auth(s, u, id) ==
    /\ Accept(s, [op |-> "delete", user |-> u, plan |-> users[u].plan, id |-> id,
                  pc |-> "fetch", body |-> NoSnap, snap |-> NoSnap])
    /\ UNCHANGED << users, clients, nextClient, subscriptions, invoices, invoice_items,
                    payments, audit_logs, payment_intents, nextId, now, last,
                    customers >>

DeleteInvoice_Fetch(s) ==
    /\ At(s, "delete", "fetch")
    /\ IF ~ OwnedBy(reqs[s].id, reqs[s].user) THEN Respond(s, 404)
       ELSE IF InvoiceById(reqs[s].id).status = "paid" THEN Respond(s, 400)
       ELSE Goto(s, "delete") /\ UNCHANGED last
    /\ UNCHANGED << users, clients, nextClient, subscriptions, invoices, invoice_items,
                    payments, audit_logs, payment_intents, nextId, now, started,
                    delivered, customers >>

DeleteInvoice_Delete(s) ==
    /\ At(s, "delete", "delete")
    /\ DeleteCascade(reqs[s].id)
    /\ Respond(s, 200)
    /\ UNCHANGED << users, clients, nextClient, subscriptions, audit_logs,
                    payment_intents, nextId, now, started, delivered, customers >>

\* ------------------------ POST /api/payments/create-invoice-payment/:invoiceId
CreateInvoicePayment_Auth(s, u, id) ==
    /\ Accept(s, [op |-> "invoice_payment", user |-> u, plan |-> users[u].plan,
                  id |-> id, pc |-> "fetch", body |-> NoSnap, snap |-> NoSnap])
    /\ UNCHANGED << users, clients, nextClient, subscriptions, invoices, invoice_items,
                    payments, audit_logs, payment_intents, nextId, now, last,
                    customers >>

CreateInvoicePayment_Fetch(s) ==
    /\ At(s, "invoice_payment", "fetch")
    /\ IF ~ OwnedBy(reqs[s].id, reqs[s].user) THEN Respond(s, 404)
       ELSE IF InvoiceById(reqs[s].id).status = "paid" THEN Respond(s, 400)
       ELSE /\ reqs' = [reqs EXCEPT ![s].pc = "intent",
                           ![s].snap = [total |-> InvoiceById(reqs[s].id).total]]
            /\ UNCHANGED last
    /\ UNCHANGED << users, clients, nextClient, subscriptions, invoices, invoice_items,
                    payments, audit_logs, payment_intents, nextId, now, started,
                    delivered, customers >>

\* stripe.paymentIntents.create: the processor refuses an amount that is not positive
CreateInvoicePayment_Intent(s) ==
    /\ At(s, "invoice_payment", "intent")
    /\ IF reqs[s].snap.total <= 0
       THEN /\ Respond(s, 500)
            /\ UNCHANGED payment_intents
       ELSE LET pi == [id |-> Cardinality(payment_intents) + 1,
                       amount |-> reqs[s].snap.total,
                       metadata |-> [invoice_id |-> reqs[s].id, user_id |-> reqs[s].user]]
            IN  /\ payment_intents' = payment_intents \cup {pi}
                /\ reqs' = [reqs EXCEPT ![s].pc = "save", ![s].snap = [intent |-> pi.id]]
                /\ UNCHANGED last
    /\ UNCHANGED << users, clients, nextClient, subscriptions, invoices, invoice_items,
                    payments, audit_logs, nextId, now, started, delivered, customers >>

CreateInvoicePayment_Save(s) ==
    /\ At(s, "invoice_payment", "save")
    /\ invoices' = {IF i.id = reqs[s].id
                     THEN [i EXCEPT !.stripe_payment_intent_id = reqs[s].snap.intent]
                     ELSE i : i \in invoices}
    /\ Respond(s, 200)
    /\ UNCHANGED << users, clients, nextClient, subscriptions, invoice_items, payments,
                    audit_logs, payment_intents, nextId, now, started, delivered,
                    customers >>

\* ------------------------ POST /api/webhooks/stripe: payment_intent.succeeded
\* paymentIntent is a payment intent the processor holds; an event may be redelivered
handlePaymentIntentSucceeded_Event(s, paymentIntent) ==
    /\ AcceptEvent(s, [op |-> "payment_intent_succeeded", user |-> "stripe", plan |-> "none",
                  id |-> paymentIntent.metadata.invoice_id, pc |-> "update",
                  body |-> paymentIntent, snap |-> [at |-> now]])
    /\ UNCHANGED << users, clients, nextClient, subscriptions, invoices, invoice_items,
                    payments, audit_logs, payment_intents, nextId, now, last,
                    customers >>

handlePaymentIntentSucceeded_Update(s) ==
    /\ At(s, "payment_intent_succeeded", "update")
    /\ invoices' = {IF i.id = reqs[s].id
                     THEN SetPaid(i, reqs[s].snap.at, reqs[s].body.amount, "stripe")
                     ELSE i : i \in invoices}
    /\ Goto(s, "payment")
    /\ UNCHANGED << users, clients, nextClient, subscriptions, invoice_items, payments,
                    audit_logs, payment_intents, nextId, now, started, delivered, last,
                    customers >>

handlePaymentIntentSucceeded_Payment(s) ==
    /\ At(s, "payment_intent_succeeded", "payment")
    /\ payments' = InsertPayment([invoice_id |-> reqs[s].id,
                                  user_id |-> reqs[s].body.metadata.user_id,
                                  amount |-> reqs[s].body.amount,
                                  payment_method |-> "stripe",
                                  stripe_payment_id |-> reqs[s].body.id,
                                  status |-> "completed"])
    /\ Respond(s, 200)
    /\ UNCHANGED << users, clients, nextClient, subscriptions, invoices, invoice_items,
                    audit_logs, payment_intents, nextId, now, started, delivered,
                    customers >>

\* ------------------------ POST /api/webhooks/stripe: checkout.session.completed
handleCheckoutComplete_Event(s, u, plan) ==
    /\ AcceptEvent(s, [op |-> "checkout_complete", user |-> "stripe", plan |-> "none",
                  id |-> 0, pc |-> "update",
                  body |-> [metadata |-> [user_id |-> u, plan |-> plan],
                            subscription |-> SubscriptionOf(u)],
                  snap |-> NoSnap])
    /\ UNCHANGED << users, clients, nextClient, subscriptions, invoices, invoice_items,
                    payments, audit_logs, payment_intents, nextId, now, last,
                    customers >>

handleCheckoutComplete_Update(s) ==
    /\ At(s, "checkout_complete", "update")
    /\ users' = [users EXCEPT
                    ![reqs[s].body.metadata.user_id].plan = reqs[s].body.metadata.plan,
                    ![reqs[s].body.metadata.user_id].stripe_subscription_id =
                        reqs[s].body.subscription]
    /\ Respond(s, 200)
    /\ UNCHANGED << clients, nextClient, subscriptions, invoices, invoice_items,
                    payments, audit_logs, payment_intents, nextId, now, started,
                    delivered, customers >>

\* ------------ POST /api/webhooks/stripe: customer.subscription.created / updated
\* CHECK (status IN ('active', 'cancelled', 'past_due', 'trialing'))
SubscriptionStatuses == {"active", "cancelled", "past_due", "trialing"}

\* an event object for the subscription id of tenant u: the processor's customer is
\* the one the tenant holds when held, and the metadata names the tenant when tagged
SubscriptionEvent(id, u, held, tagged, plan, status) ==
    [id |-> id,
     customer |-> IF held THEN CustomerOf(u) ELSE "cus_0",
     status |-> status,
     metadata |-> [user_id |-> IF tagged THEN u ELSE UndefinedText, plan |-> plan],
     current_period_end |-> now + TicksPerMonth]

\* the users rows matched by .eq('stripe_customer_id', customer)
UsersOfCustomer(customer) == {u \in Users : users[u].stripe_customer_id = customer}

\* plan || 'pro'
PlanOrPro(plan) == IF plan = UndefinedText THEN "pro" ELSE plan

handleSubscriptionUpdate_Event(s, subscription) ==
    /\ AcceptEvent(s, [op |-> "subscription_update", user |-> "stripe", plan |-> "none",
                  id |-> 0,
                  pc |-> IF subscription.metadata.user_id = UndefinedText THEN "lookup"
                         ELSE "upsert",
                  body |-> subscription, snap |-> NoSnap])
    /\ UNCHANGED << users, clients, nextClient, subscriptions, invoices, invoice_items,
                    payments, audit_logs, payment_intents, nextId, now, last,
                    customers >>

\* "Try to find user by customer ID": the user found is not kept
handleSubscriptionUpdate_Lookup(s) ==
    /\ At(s, "subscription_update", "lookup")
    /\ IF UsersOfCustomer(reqs[s].body.customer) = {}
       THEN Respond(s, 200)
       ELSE Goto(s, "upsert") /\ UNCHANGED last
    /\ UNCHANGED << users, clients, nextClient, subscriptions, invoices, invoice_items,
                    payments, audit_logs, payment_intents, nextId, now, started,
                    delivered, customers >>

\* the row handleSubscriptionUpdate hands to upsert
SubscriptionRow(subscription) ==
    [user_id |-> subscription.metadata.user_id,
     stripe_subscription_id |-> subscription.id,
     stripe_customer_id |-> subscription.customer,
     plan |-> PlanOrPro(subscription.metadata.plan),
     status |-> IF subscription.status \in {"active", "trialing"} THEN "active"
                ELSE subscription.status,
     current_period_end |-> subscription.current_period_end,
     cancelled_at |-> NULL]

\* the constraints of CREATE TABLE subscriptions a row must meet: user_id NOT NULL
\* REFERENCES users(id), and the CHECK on status
UpsertAllowed(row) ==
    /\ row.user_id \in Users
    /\ row.status \in SubscriptionStatuses

\* INSERT ... ON CONFLICT (stripe_subscription_id) DO UPDATE SET the columns given
Upsert(row) ==
    IF \E r \in subscriptions : r.stripe_subscription_id = row.stripe_subscription_id
    THEN {IF r.stripe_subscription_id = row.stripe_subscription_id
          THEN [row EXCEPT !.cancelled_at = r.cancelled_at]
          ELSE r : r \in subscriptions}
    ELSE subscriptions \cup {row}

handleSubscriptionUpdate_Upsert(s) ==
    /\ At(s, "subscription_update", "upsert")
    /\ LET row == SubscriptionRow(reqs[s].body)
       IN  subscriptions' = IF UpsertAllowed(row) THEN Upsert(row) ELSE subscriptions
    /\ IF reqs[s].body.status \in {"active", "trialing"}
       THEN Goto(s, "user") /\ UNCHANGED last
       ELSE Respond(s, 200)
    /\ UNCHANGED << users, clients, nextClient, invoices, invoice_items, payments,
                    audit_logs, payment_intents, nextId, now, started, delivered,
                    customers >>

handleSubscriptionUpdate_User(s) ==
    /\ At(s, "subscription_update", "user")
    /\ users' = [u \in Users |->
                    IF u \in UsersOfCustomer(reqs[s].body.customer)
                    THEN [users[u] EXCEPT
                            !.plan = PlanOrPro(reqs[s].body.metadata.plan),
                            !.plan_expires_at = reqs[s].body.current_period_end]
                    ELSE users[u]]
    /\ Respond(s, 200)
    /\ UNCHANGED << clients, nextClient, subscriptions, invoices, invoice_items, payments,
                    audit_logs, payment_intents, nextId, now, started, delivered,
                    customers >>

\* ------------ POST /api/webhooks/stripe: customer.subscription.deleted
handleSubscriptionDeleted_Event(s, subscription) ==
    /\ AcceptEvent(s, [op |-> "subscription_deleted", user |-> "stripe", plan |-> "none",
                  id |-> 0, pc |-> "subscription",
                  body |-> subscription, snap |-> NoSnap])
    /\ UNCHANGED << users, clients, nextClient, subscriptions, invoices, invoice_items,
                    payments, audit_logs, payment_intents, nextId, now, last,
                    customers >>

\* a handler that marks the subscription past_due instead
CancelSubscription_PastDue(r, at) == [r EXCEPT !.status = "past_due"]

\* UPDATE subscriptions SET status = 'cancelled', cancelled_at = now
CancelSubscription(r, at) == [r EXCEPT !.status = "cancelled", !.cancelled_at = at]

handleSubscriptionDeleted_Subscription(s) ==
    /\ At(s, "subscription_deleted", "subscription")
    /\ subscriptions' = {IF r.stripe_subscription_id = reqs[s].body.id
                         THEN CancelSubscription(r, now)
                         ELSE r : r \in subscriptions}
    /\ Goto(s, "user")
    /\ UNCHANGED << users, clients, nextClient, invoices, invoice_items, payments,
                    audit_logs, payment_intents, nextId, now, started, delivered, last,
                    customers >>

handleSubscriptionDeleted_User(s) ==
    /\ At(s, "subscription_deleted", "user")
    /\ users' = [u \in Users |->
                    IF u \in UsersOfCustomer(reqs[s].body.customer)
                    THEN [users[u] EXCEPT !.plan = "free",
                                          !.stripe_subscription_id = NullText]
                    ELSE users[u]]
    /\ Respond(s, 200)
    /\ UNCHANGED << clients, nextClient, subscriptions, invoices, invoice_items, payments,
                    audit_logs, payment_intents, nextId, now, started, delivered,
                    customers >>

\* ------------ POST /api/webhooks/stripe: invoice.paid
handleInvoicePaid_Event(s, invoice) ==
    /\ AcceptEvent(s, [op |-> "invoice_paid", user |-> "stripe", plan |-> "none",
                  id |-> 0, pc |-> "audit", body |-> invoice, snap |-> NoSnap])
    /\ UNCHANGED << users, clients, nextClient, subscriptions, invoices, invoice_items,
                    payments, audit_logs, payment_intents, nextId, now, last,
                    customers >>

handleInvoicePaid_Audit(s) ==
    /\ At(s, "invoice_paid", "audit")
    /\ audit_logs' = Append(audit_logs, [user_id |-> NullText,
                                         action |-> "SUBSCRIPTION_PAYMENT_SUCCESS",
                                         entity_id |-> NULL,
                                         new_values |-> [customer |-> reqs[s].body.customer],
                                         created_at |-> now])
    /\ Respond(s, 200)
    /\ UNCHANGED << users, clients, nextClient, subscriptions, invoices, invoice_items,
                    payments, payment_intents, nextId, now, started, delivered,
                    customers >>

\* ------------ POST /api/webhooks/stripe: invoice.payment_failed
handlePaymentFailed_Event(s, invoice) ==
    /\ AcceptEvent(s, [op |-> "payment_failed", user |-> "stripe", plan |-> "none",
                  id |-> 0, pc |-> "subscription", body |-> invoice, snap |-> NoSnap])
    /\ UNCHANGED << users, clients, nextClient, subscriptions, invoices, invoice_items,
                    payments, audit_logs, payment_intents, nextId, now, last,
                    customers >>

handlePaymentFailed_Subscription(s) ==
    /\ At(s, "payment_failed", "subscription")
    /\ subscriptions' = {IF r.stripe_customer_id = reqs[s].body.customer
                         THEN [r EXCEPT !.status = "past_due"]
                         ELSE r : r \in subscriptions}
    /\ Goto(s, "audit")
    /\ UNCHANGED << users, clients, nextClient, invoices, invoice_items, payments,
                    audit_logs, payment_intents, nextId, now, started, delivered, last,
                    customers >>

handlePaymentFailed_Audit(s) ==
    /\ At(s, "payment_failed", "audit")
    /\ audit_logs' = Append(audit_logs, [user_id |-> NullText,
                                         action |-> "SUBSCRIPTION_PAYMENT_FAILED",
                                         entity_id |-> NULL,
                                         new_values |-> [customer |-> reqs[s].body.customer],
                                         created_at |-> now])
    /\ Respond(s, 200)
    /\ UNCHANGED << users, clients, nextClient, subscriptions, invoices, invoice_items,
                    payments, payment_intents, nextId, now, started, delivered,
                    customers >>

\* ------------ POST /api/webhooks/stripe: any other event type
\* the event types the switch of the route has a case for
HandledTypes == {"checkout.session.completed", "customer.subscription.created",
                 "customer.subscription.updated", "customer.subscription.deleted",
                 "invoice.paid", "invoice.payment_failed", "payment_intent.succeeded"}

Unhandled_Event(s, type) ==
    /\ type \notin HandledTypes
    /\ AcceptEvent(s, [op |-> "unhandled", user |-> "stripe", plan |-> "none",
                  id |-> 0, pc |-> "respond", body |-> [type |-> type], snap |-> NoSnap])
    /\ UNCHANGED << users, clients, nextClient, subscriptions, invoices, invoice_items,
                    payments, audit_logs, payment_intents, nextId, now, last,
                    customers >>

\* a route that answers an event it has no case for with 400
Unhandled_Respond_Reject(s) ==
    /\ At(s, "unhandled", "respond")
    /\ Respond(s, 400)
    /\ UNCHANGED << users, clients, nextClient, subscriptions, invoices, invoice_items,
                    payments, audit_logs, payment_intents, nextId, now, started,
                    delivered, customers >>

\* default: console.log, then res.json({ received: true })
Unhandled_Respond(s) ==
    /\ At(s, "unhandled", "respond")
    /\ Respond(s, 200)
    /\ UNCHANGED << users, clients, nextClient, subscriptions, invoices, invoice_items,
                    payments, audit_logs, payment_intents, nextId, now, started,
                    delivered, customers >>

\* ------------------------ POST /api/payments/create-checkout-session
\* req.user: the columns authenticate selects from the users row
authenticate(u) == [id |-> u, plan |-> users[u].plan]

\* obj[name] in JavaScript: undefined when the object has no such property,
\* and null and undefined are both falsy
Property(obj, name) ==
    IF name \in DOMAIN obj /\ obj[name] # NullText THEN obj[name] ELSE UndefinedText

\* priceIds[plan] && priceIds[plan][billing_period]
PricedPlans == {"pro", "business"}

CreateCheckoutSession_Auth(s, u, plan) ==
    /\ IF plan \in PricedPlans
       THEN LET stripeCustomerId == Property(authenticate(u), "stripe_customer_id")
            IN  /\ Accept(s, [op |-> "checkout_session", user |-> u,
                              plan |-> users[u].plan, id |-> 0,
                              pc |-> IF stripeCustomerId = UndefinedText THEN "customer"
                                     ELSE "session",
                              body |-> [plan |-> plan],
                              snap |-> [customer |-> stripeCustomerId]])
                /\ UNCHANGED last
       ELSE /\ Begin(s)
            /\ started' = started + 1
            /\ last' = 400
            /\ UNCHANGED << reqs, delivered >>
    /\ UNCHANGED << users, clients, nextClient, subscriptions, invoices, invoice_items,
                    payments, audit_logs, payment_intents, customers, nextId, now >>

\* stripe.customers.create: the processor issues a customer id it has not issued
CreateCheckoutSession_Customer(s) ==
    /\ At(s, "checkout_session", "customer")
    /\ LET customer == "cus_" \o ToString(Cardinality(customers) + 1)
       IN  /\ customers' = customers \cup {customer}
           /\ reqs' = [reqs EXCEPT ![s].pc = "save", ![s].snap = [customer |-> customer]]
    /\ UNCHANGED << users, clients, nextClient, subscriptions, invoices, invoice_items,
                    payments, audit_logs, payment_intents, nextId, now, started,
                    delivered, last >>

CreateCheckoutSession_Save(s) ==
    /\ At(s, "checkout_session", "save")
    /\ users' = [users EXCEPT ![reqs[s].user].stripe_customer_id = reqs[s].snap.customer]
    /\ Goto(s, "session")
    /\ UNCHANGED << clients, nextClient, subscriptions, invoices, invoice_items,
                    payments, audit_logs, payment_intents, customers, nextId, now,
                    started, delivered, last >>

\* stripe.checkout.sessions.create for the customer, then the session url is returned
CreateCheckoutSession_Session(s) ==
    /\ At(s, "checkout_session", "session")
    /\ Respond(s, 200)
    /\ UNCHANGED << users, clients, nextClient, subscriptions, invoices, invoice_items,
                    payments, audit_logs, payment_intents, customers, nextId, now,
                    started, delivered >>

\* ------------------------------------------------- POST /api/clients
\* email.toLowerCase()
toLowerCase(email) == IF email = "A@x.com" THEN "a@x.com" ELSE email

\* uuidv4(): the n-th client id handed out
ClientId(n) == "c" \o ToString(n)

\* client ids a request may name: every client id handed out so far
KnownClients == {ClientId(n) : n \in 1..(nextClient - 1)}

\* the rows counted by .eq('user_id', req.userId).eq('is_active', true)
ActiveClients(u) == {c \in clients : c.user_id = u /\ c.is_active}

CreateClient_Auth(s, u, email) ==
    /\ Accept(s, [op |-> "create_client", user |-> u, plan |-> users[u].plan, id |-> 0,
                  pc |-> IF users[u].plan = "free" THEN "limit" ELSE "duplicate",
                  body |-> [email |-> email], snap |-> NoSnap])
    /\ UNCHANGED << users, clients, nextClient, subscriptions, invoices, invoice_items,
                    payments, audit_logs, payment_intents, nextId, now, last,
                    customers >>

\* a free plan whose limit is one client higher
ClientLimitReached_Above(count) == count > FreeClientLimit

\* "Free plan limited to 2 clients"
ClientLimitReached(count) == count >= FreeClientLimit

CreateClient_PlanLimit(s) ==
    /\ At(s, "create_client", "limit")
    /\ IF ClientLimitReached(Cardinality(ActiveClients(reqs[s].user)))
       THEN Respond(s, 403)
       ELSE Goto(s, "duplicate") /\ UNCHANGED last
    /\ UNCHANGED << users, clients, nextClient, subscriptions, invoices, invoice_items,
                    payments, audit_logs, payment_intents, nextId, now, started,
                    delivered, customers >>

CreateClient_Duplicate(s) ==
    /\ At(s, "create_client", "duplicate")
    /\ IF \E c \in clients : /\ c.user_id = reqs[s].user
                             /\ c.email = toLowerCase(reqs[s].body.email)
       THEN Respond(s, 400)
       ELSE Goto(s, "insert") /\ UNCHANGED last
    /\ UNCHANGED << users, clients, nextClient, subscriptions, invoices, invoice_items,
                    payments, audit_logs, payment_intents, nextId, now, started,
                    delivered, customers >>

\* UNIQUE(user_id, email) of CREATE TABLE clients
UniqueEmail(u, email) == ~ \E c \in clients : c.user_id = u /\ c.email = email

CreateClient_Insert(s) ==
    /\ At(s, "create_client", "insert")
    /\ LET row == [id |-> ClientId(nextClient), user_id |-> reqs[s].user,
                   email |-> toLowerCase(reqs[s].body.email), is_active |-> TRUE]
       IN  IF UniqueEmail(row.user_id, row.email)
           THEN /\ clients' = clients \cup {row}
                /\ nextClient' = nextClient + 1
                /\ reqs' = [reqs EXCEPT ![s].pc = "audit", ![s].snap = [client |-> row.id]]
                /\ UNCHANGED last
           ELSE /\ Respond(s, 500)
                /\ UNCHANGED << clients, nextClient >>
    /\ UNCHANGED << users, subscriptions, invoices, invoice_items, payments, audit_logs,
                    payment_intents, nextId, now, started, delivered, customers >>

CreateClient_Audit(s) ==
    /\ At(s, "create_client", "audit")
    /\ audit_logs' = Append(audit_logs, [user_id |-> reqs[s].user,
                                         action |-> "CLIENT_CREATED",
                                         entity_id |-> reqs[s].snap.client,
                                         new_values |-> [email |-> reqs[s].body.email],
                                         created_at |-> now])
    /\ Respond(s, 201)
    /\ UNCHANGED << users, clients, nextClient, subscriptions, invoices, invoice_items,
                    payments, payment_intents, nextId, now, started, delivered,
                    customers >>

\* ------------------------------------------------- DELETE /api/clients/:id
DeleteClient_Auth(s, u, c) ==
    /\ Accept(s, [op |-> "delete_client", user |-> u, plan |-> users[u].plan, id |-> 0,
                  pc |-> "count", body |-> [client |-> c], snap |-> NoSnap])
    /\ UNCHANGED << users, clients, nextClient, subscriptions, invoices, invoice_items,
                    payments, audit_logs, payment_intents, nextId, now, last,
                    customers >>

DeleteClient_Count(s) ==
    /\ At(s, "delete_client", "count")
    /\ LET count == Cardinality({i \in invoices : /\ i.client_id = reqs[s].body.client
                                                  /\ i.user_id = reqs[s].user})
       IN  Goto(s, IF count > 0 THEN "deactivate" ELSE "delete")
    /\ UNCHANGED << users, clients, nextClient, subscriptions, invoices, invoice_items,
                    payments, audit_logs, payment_intents, nextId, now, started,
                    delivered, last, customers >>

\* UPDATE clients SET is_active = false WHERE id = :id AND user_id = req.userId
DeleteClient_Deactivate(s) ==
    /\ At(s, "delete_client", "deactivate")
    /\ clients' = {IF c.id = reqs[s].body.client /\ c.user_id = reqs[s].user
                   THEN [c EXCEPT !.is_active = FALSE]
                   ELSE c : c \in clients}
    /\ Respond(s, 200)
    /\ UNCHANGED << users, nextClient, subscriptions, invoices, invoice_items, payments,
                    audit_logs, payment_intents, nextId, now, started, delivered,
                    customers >>

\* a clients table that invoices reference without ON DELETE RESTRICT
DeleteRestricted_Never(rows) == FALSE

\* invoices.client_id REFERENCES clients(id) ON DELETE RESTRICT
DeleteRestricted(rows) == \E c \in rows : \E i \in invoices : i.client_id = c.id

\* DELETE FROM clients WHERE id = :id AND user_id = req.userId
DeleteClient_Delete(s) ==
    /\ At(s, "delete_client", "delete")
    /\ LET rows == {c \in clients : c.id = reqs[s].body.client /\ c.user_id = reqs[s].user}
       IN  IF DeleteRestricted(rows)
           THEN /\ Respond(s, 500)
                /\ UNCHANGED clients
           ELSE /\ clients' = clients \ rows
                /\ Respond(s, 200)
    /\ UNCHANGED << users, nextClient, subscriptions, invoices, invoice_items, payments,
                    audit_logs, payment_intents, nextId, now, started, delivered,
                    customers >>

\* ------------------------------------------------------------ workload
\* ids a request may name: every invoice id handed out so far
KnownIds == 1..(nextId - 1)

\* the requests of the sequential runs: both tenants, every kind of body
SeqWorkload ==
    [users |-> Users,
     createBodies |->
         { CreateBody(c, ItemsA, 10, 500) : c \in {"c1", "c2"} }
         \cup { CreateBody("c1", ItemsB, 10, 20000) },
     updateBodies |->
         { UpdateBody(FALSE, << >>, st, Undefined, Undefined) :
               st \in Statuses \cup {"bogus"} }
         \cup { UpdateBody(TRUE, ItemsB, st, Undefined, Undefined) :
                    st \in {UndefinedText, "paid"} }
         \cup { UpdateBody(FALSE, << >>, UndefinedText, 20, Undefined),
                UpdateBody(TRUE, ItemsB, UndefinedText, 0, 0),
                UpdateBody(TRUE, << >>, "draft", Undefined, Undefined) },
     plans |-> {"pro", "business"},
     insertOutcomes |-> {TRUE},
     requests |-> MaxRequests,
     events |-> MaxEvents]

\* the requests of the interleaved runs: fewer bodies, every kind of request
Workload ==
    [users |-> Users,
     createBodies |-> { CreateBody(c, ItemsA, 10, 500) : c \in {"c1", "c2"} },
     updateBodies |-> { UpdateBody(TRUE, ItemsB, "draft", Undefined, Undefined) },
     plans |-> {"pro"},
     insertOutcomes |-> {TRUE},
     requests |-> MaxRequests,
     events |-> MaxEvents]

\* a run accepts the workload's number of API requests and webhook deliveries
Admit(W)   == started < W.requests
Deliver(W) == delivered < W.events

CreateInvoiceSteps(s, W) ==
    \/ Admit(W) /\ \E u \in W.users, b \in W.createBodies : CreateInvoice_Auth(s, u, b)
    \/ CreateInvoice_PlanLimit(s)
    \/ CreateInvoice_Client(s)
    \/ CreateInvoice_Count(s)
    \/ CreateInvoice_Insert(s)
    \/ \E ok \in BOOLEAN : CreateInvoice_Items(s, ok)
    \/ CreateInvoice_Rollback(s)
    \/ CreateInvoice_Audit(s)

DeleteInvoiceSteps(s, W) ==
    \/ Admit(W) /\ \E u \in W.users, id \in KnownIds : DeleteInvoice_Auth(s, u, id)
    \/ DeleteInvoice_Fetch(s)
    \/ DeleteInvoice_Delete(s)

Steps(s, W) ==
    \/ CreateInvoiceSteps(s, W)
    \/ DeleteInvoiceSteps(s, W)
    \/ Admit(W) /\ \E u \in W.users, id \in KnownIds, b \in W.updateBodies :
                       UpdateInvoice_Auth(s, u, id, b)
    \/ UpdateInvoice_Fetch(s)
    \/ UpdateInvoice_DeleteItems(s)
    \/ \E ok \in W.insertOutcomes : UpdateInvoice_InsertItems(s, ok)
    \/ UpdateInvoice_Update(s)
    \/ Admit(W) /\ \E u \in W.users, id \in KnownIds : SendInvoice_Auth(s, u, id)
    \/ SendInvoice_Fetch(s)
    \/ \E sent \in BOOLEAN : SendInvoice_Email(s, sent)
    \/ SendInvoice_Update(s)
    \/ Admit(W) /\ \E u \in W.users, id \in KnownIds : RemindInvoice_Auth(s, u, id)
    \/ RemindInvoice_Fetch(s)
    \/ RemindInvoice_Update(s)
    \/ Admit(W) /\ \E u \in W.users, id \in KnownIds : MarkPaid_Auth(s, u, id, "manual")
    \/ MarkPaid_Fetch(s)
    \/ MarkPaid_Update(s)
    \/ MarkPaid_Payment(s)
    \/ Admit(W) /\ \E u \in W.users, id \in KnownIds : CreateInvoicePayment_Auth(s, u, id)
    \/ CreateInvoicePayment_Fetch(s)
    \/ CreateInvoicePayment_Intent(s)
    \/ CreateInvoicePayment_Save(s)
    \/ Deliver(W) /\ \E pi \in payment_intents : handlePaymentIntentSucceeded_Event(s, pi)
    \/ handlePaymentIntentSucceeded_Update(s)
    \/ handlePaymentIntentSucceeded_Payment(s)
    \/ Deliver(W) /\ \E u \in W.users, plan \in W.plans :
                         handleCheckoutComplete_Event(s, u, plan)
    \/ handleCheckoutComplete_Update(s)

Next == \E s \in Slots : Steps(s, Workload)

Spec == Init /\ [][Next]_vars

\* one request at a time: a request is accepted only when no other is in flight
NextSeq == Tick \/ Steps(1, SeqWorkload)

SpecSeq == Init /\ [][NextSeq]_vars

ClientSteps(s, W) ==
    \/ Admit(W) /\ \E u \in W.users, email \in W.emails : CreateClient_Auth(s, u, email)
    \/ CreateClient_PlanLimit(s)
    \/ CreateClient_Duplicate(s)
    \/ CreateClient_Insert(s)
    \/ CreateClient_Audit(s)
    \/ Admit(W) /\ \E u \in W.users, c \in KnownClients : DeleteClient_Auth(s, u, c)
    \/ DeleteClient_Count(s)
    \/ DeleteClient_Deactivate(s)
    \/ DeleteClient_Delete(s)

\* both tenants creating and deleting clients and creating invoices for them
ClientsWorkload ==
    [users |-> Users,
     emails |-> {"A@x.com", "b@x.com"},
     createBodies |-> { CreateBody("c1", ItemsB, 0, 0) },
     requests |-> MaxClientRequests]

NextClients ==
    \E s \in Slots : ClientSteps(s, ClientsWorkload) \/ CreateInvoiceSteps(s, ClientsWorkload)

SpecClients == Init /\ [][NextClients]_vars

\* the same requests one at a time, with more emails and one more request
ClientsSeqWorkload ==
    [users |-> Users,
     emails |-> {"A@x.com", "b@x.com", "c@x.com"},
     createBodies |-> { CreateBody(c, ItemsB, 0, 0) : c \in {"c1", "c2"} },
     requests |-> MaxClientRequests]

NextClientsSeq ==
    ClientSteps(1, ClientsSeqWorkload) \/ CreateInvoiceSteps(1, ClientsSeqWorkload)

SpecClientsSeq == Init /\ [][NextClientsSeq]_vars

SubscriptionSteps(s, W) ==
    \/ Deliver(W) /\ \E u \in W.users, held \in BOOLEAN, tagged \in BOOLEAN,
                           plan \in W.plans, status \in W.statuses :
                         \E id \in SubscriptionsOf(u) :
                             handleSubscriptionUpdate_Event(
                                 s, SubscriptionEvent(id, u, held, tagged, plan, status))
    \/ handleSubscriptionUpdate_Lookup(s)
    \/ handleSubscriptionUpdate_Upsert(s)
    \/ handleSubscriptionUpdate_User(s)
    \/ Deliver(W) /\ \E u \in W.users, held \in BOOLEAN, tagged \in BOOLEAN :
                         \E id \in SubscriptionsOf(u) :
                             handleSubscriptionDeleted_Event(
                                 s, SubscriptionEvent(id, u, held, tagged, UndefinedText,
                                                      "canceled"))
    \/ handleSubscriptionDeleted_Subscription(s)
    \/ handleSubscriptionDeleted_User(s)
    \/ Deliver(W) /\ \E u \in W.users, plan \in W.checkoutPlans :
                         handleCheckoutComplete_Event(s, u, plan)
    \/ handleCheckoutComplete_Update(s)
    \/ Deliver(W) /\ \E u \in W.users :
                         handleInvoicePaid_Event(s, [customer |-> CustomerOf(u)])
    \/ handleInvoicePaid_Audit(s)
    \/ Deliver(W) /\ \E u \in W.users :
                         handlePaymentFailed_Event(s, [customer |-> CustomerOf(u)])
    \/ handlePaymentFailed_Subscription(s)
    \/ handlePaymentFailed_Audit(s)
    \/ Deliver(W) /\ \E type \in W.types : Unhandled_Event(s, type)
    \/ Unhandled_Respond(s)

\* the processor's events about the subscriptions of both tenants, one at a time
SubscriptionWorkload ==
    [users |-> Users,
     plans |-> {"business", UndefinedText},
     checkoutPlans |-> {"pro"},
     statuses |-> {"active", "trialing", "past_due", "canceled"},
     types |-> {"customer.created", "charge.refunded"},
     events |-> MaxSubscriptionEvents]

NextSubscriptions == Tick \/ SubscriptionSteps(1, SubscriptionWorkload)

SpecSubscriptions == Init /\ [][NextSubscriptions]_vars

SendSteps(s, W) ==
    \/ CreateInvoiceSteps(s, W)
    \/ Admit(W) /\ \E u \in W.users, id \in KnownIds, b \in W.updateBodies :
                       UpdateInvoice_Auth(s, u, id, b)
    \/ UpdateInvoice_Fetch(s)
    \/ UpdateInvoice_Update(s)
    \/ Admit(W) /\ \E u \in W.users, id \in KnownIds : SendInvoice_Auth(s, u, id)
    \/ SendInvoice_Fetch(s)
    \/ \E sent \in BOOLEAN : SendInvoice_Email(s, sent)
    \/ SendInvoice_Update(s)
    \/ Admit(W) /\ \E u \in W.users, id \in KnownIds : MarkPaid_Auth(s, u, id, "manual")
    \/ MarkPaid_Fetch(s)
    \/ MarkPaid_Update(s)
    \/ MarkPaid_Payment(s)

\* tenants creating an invoice, returning it to draft, sending it and marking
\* it paid, in any interleaving
SendWorkload ==
    [users |-> Users,
     createBodies |-> { CreateBody("c1", ItemsB, 0, 0) },
     updateBodies |-> { UpdateBody(FALSE, << >>, "draft", Undefined, Undefined) },
     requests |-> MaxSendRequests]

NextSend == \E s \in Slots : SendSteps(s, SendWorkload)

SpecSend == Init /\ [][NextSend]_vars

CheckoutSteps(s, W) ==
    \/ Admit(W) /\ \E u \in W.users, plan \in W.checkoutPlans :
                       CreateCheckoutSession_Auth(s, u, plan)
    \/ CreateCheckoutSession_Customer(s)
    \/ CreateCheckoutSession_Save(s)
    \/ CreateCheckoutSession_Session(s)
    \/ Deliver(W) /\ \E c \in customers :
                         handleSubscriptionDeleted_Event(
                             s, [id |-> W.subscription, customer |-> c])
    \/ handleSubscriptionDeleted_Subscription(s)
    \/ handleSubscriptionDeleted_User(s)

\* tenants starting checkouts, and the processor ending the subscription of any
\* customer it holds, one call at a time
CheckoutWorkload ==
    [users |-> Users,
     checkoutPlans |-> {"pro", "enterprise"},
     subscription |-> SubscriptionOf("u1"),
     requests |-> MaxCheckoutRequests,
     events |-> MaxEvents]

NextCheckout == CheckoutSteps(1, CheckoutWorkload)

SpecCheckout == Init /\ [][NextCheckout]_vars

UpdateSteps(s, W) ==
    \/ CreateInvoiceSteps(s, W)
    \/ Admit(W) /\ \E u \in W.users, id \in KnownIds, b \in W.updateBodies :
                       UpdateInvoice_Auth(s, u, id, b)
    \/ UpdateInvoice_Fetch(s)
    \/ UpdateInvoice_DeleteItems(s)
    \/ \E ok \in W.insertOutcomes : UpdateInvoice_InsertItems(s, ok)
    \/ UpdateInvoice_Update(s)

\* tenants creating invoices and replacing their line items one call at a time,
\* with a store that may refuse the replacement rows or the row update
UpdateWorkload ==
    [users |-> Users,
     createBodies |-> { CreateBody(c, ItemsA, 10, 500) : c \in {"c1", "c2"} },
     updateBodies |-> { UpdateBody(TRUE, ItemsB, st, Undefined, Undefined) :
                            st \in {UndefinedText, "bogus"} },
     insertOutcomes |-> BOOLEAN,
     requests |-> MaxRequests]

NextUpdate == UpdateSteps(1, UpdateWorkload)

SpecUpdate == Init /\ [][NextUpdate]_vars

\* the free tenant creating and deleting invoices, one request at a time
PlanWorkload ==
    [users |-> {"u2"},
     createBodies |-> { CreateBody("c2", ItemsA, 10, 500) },
     requests |-> MaxPlanRequests]

NextPlan ==
    \/ Tick
    \/ CreateInvoiceSteps(1, PlanWorkload)
    \/ DeleteInvoiceSteps(1, PlanWorkload)

SpecPlan == Init /\ [][NextPlan]_vars

\* ------------------------------------------------------------ properties
\* no request is between two awaits: every accepted call has completed
Quiescent == \A s \in Slots : reqs[s] = Idle

CompletedPayments(P, id) ==
    SelectSeq(P, LAMBDA p : p.invoice_id = id /\ p.status = "completed")

\* C1: once an invoice is paid, every step of a call made afterwards (update with
\* any status, send, remind, mark-paid, delete, create-invoice-payment, payment
\* succeeded event) leaves it stored and paid.
C1_PaidStaysPaid ==
    [][\A i \in invoices : i.status = "paid" =>
          \E j \in invoices' : j.id = i.id /\ j.status = "paid"]_vars

\* C1 witness: an invoice is paid and a later call on a paid invoice was refused
C1_Witness == last = 400 /\ Quiescent /\ \E i \in invoices : i.status = "paid"

\* C2: for one invoice and one external payment id there is at most one
\* completed Payment Record, however often the event is delivered.
C2_OnePaymentPerReference ==
    \A k, l \in DOMAIN payments :
        ( /\ payments[k].stripe_payment_id # NULL
          /\ payments[k].stripe_payment_id = payments[l].stripe_payment_id
          /\ payments[k].invoice_id = payments[l].invoice_id
          /\ payments[k].status = "completed"
          /\ payments[l].status = "completed" ) => k = l

\* C3: once an invoice is paid and its Payment Record is stored, no later step
\* changes its paid_amount, paid_at or payment_method or its Payment Records.
C3_PaidFieldsKept ==
    [][\A i \in invoices :
          (i.status = "paid" /\ Len(PaymentsOf(i.id)) >= 1) =>
             /\ \A j \in invoices' : j.id = i.id =>
                   /\ j.paid_amount = i.paid_amount
                   /\ j.paid_at = i.paid_at
                   /\ j.payment_method = i.payment_method
             /\ PaymentsIn(payments', i.id) = PaymentsOf(i.id)]_vars

\* C4: no step changes the line items, subtotal, tax_amount or total (or the
\* tax_rate or discount_amount) of an invoice that is paid.
C4_PaidImmutable ==
    [][\A i \in invoices : i.status = "paid" =>
          /\ {r \in invoice_items' : r.invoice_id = i.id} = ItemsOf(i.id)
          /\ \A j \in invoices' : j.id = i.id =>
                /\ j.subtotal = i.subtotal
                /\ j.tax_amount = i.tax_amount
                /\ j.total = i.total
                /\ j.tax_rate = i.tax_rate
                /\ j.discount_amount = i.discount_amount]_vars

\* C5: no two stored invoices of one tenant carry the same invoice number.
C5_NumbersDistinct ==
    \A i, j \in invoices :
        (i.user_id = j.user_id /\ i.invoice_number = j.invoice_number) => i = j

\* C5 witness: two creates of one tenant computed the same number; one has
\* inserted its row and the other is about to insert
C5_Witness ==
    \E s, t \in Slots :
        /\ s # t
        /\ At(s, "create", "insert")
        /\ reqs[t].op = "create" /\ reqs[t].pc \in {"items", "audit"}
        /\ reqs[s].user = reqs[t].user
        /\ reqs[s].snap.invoice_number = reqs[t].snap.invoice_number
        /\ reqs[t].id \in InvoiceIds

\* C6: the ordinals of the invoices one tenant created, in the order the
\* audit log records the creations, are strictly increasing.
C6_OrdinalsIncrease ==
    \A k, l \in DOMAIN audit_logs :
        (k < l /\ audit_logs[k].user_id = audit_logs[l].user_id) =>
            audit_logs[k].new_values.invoice_number.ordinal
              < audit_logs[l].new_values.invoice_number.ordinal

RECURSIVE SumAmounts(_)
SumAmounts(rows) ==
    IF rows = {} THEN 0
    ELSE LET r == CHOOSE x \in rows : TRUE
         IN  r.quantity * r.unit_price + SumAmounts(rows \ {r})

\* the sum of quantity x unit_price over the stored line items of an invoice
StoredSubtotal(id) == SumAmounts(ItemsOf(id))

\* C7: when every call has completed, each invoice has subtotal = sum of its
\* stored line items, tax_amount = subtotal x tax_rate / 100 (as the column
\* rounds it) and total = subtotal + tax_amount - discount_amount.
C7_TotalsConsistent ==
    Quiescent =>
        \A i \in invoices :
            /\ i.subtotal = StoredSubtotal(i.id)
            /\ i.tax_amount = RoundCents(i.subtotal * i.tax_rate)
            /\ i.total = i.subtotal + i.tax_amount - i.discount_amount

\* C8: when every call has completed, each invoice has total >= 0 and
\* discount_amount <= subtotal + tax_amount.
C8_TotalNonNegative ==
    Quiescent =>
        \A i \in invoices :
            /\ i.total >= 0
            /\ i.discount_amount <= i.subtotal + i.tax_amount

\* C9: no step changes the status of an invoice that is cancelled.
C9_CancelledTerminal ==
    [][\A i \in invoices : i.status = "cancelled" =>
          \A j \in invoices' : j.id = i.id => j.status = "cancelled"]_vars

\* C10: when every call has completed, each paid invoice has paid_at,
\* paid_amount and payment_method set and has a completed Payment Record.
C10_PaidHasPayment ==
    Quiescent =>
        \A i \in invoices : i.status = "paid" =>
            /\ i.paid_at # NULL
            /\ i.paid_amount # NULL
            /\ i.payment_method # NullText
            /\ Len(CompletedPayments(payments, i.id)) >= 1

\* the invoices tenant u created in calendar month m, as the audit log records them
CreatedInMonth(u, m) ==
    { k \in DOMAIN audit_logs : /\ audit_logs[k].action = "INVOICE_CREATED"
                                /\ audit_logs[k].user_id = u
                                /\ getMonth(audit_logs[k].created_at) = m }

\* C11: a tenant on the free plan never completes more than 5 invoice creations
\* within one calendar month, whatever it created or deleted before and whatever
\* the time of day.
C11_FreeMonthlyLimit ==
    \A u \in Users : users[u].plan = "free" =>
        \A m \in 0..getMonth(now) : Cardinality(CreatedInMonth(u, m)) <= FreeInvoiceLimit

\* C12: a tenant on the free plan never has more than 2 active clients; a client
\* create of a free tenant that has 2 active clients answers 403 and adds no
\* row, with fewer it passes the plan check; a 403 is only ever given to a free
\* tenant with 2 active clients.
C12_FreeClientLimit ==
    /\ [](\A u \in Users : users[u].plan = "free" =>
              Cardinality(ActiveClients(u)) <= FreeClientLimit)
    /\ [][\A s \in Slots : At(s, "create_client", "limit") /\ reqs'[s] # reqs[s] =>
              IF Cardinality(ActiveClients(reqs[s].user)) >= FreeClientLimit
              THEN last' = 403 /\ reqs'[s] = Idle /\ clients' = clients
              ELSE reqs'[s] # Idle /\ reqs'[s].pc = "duplicate"]_vars
    /\ [][\A s \in Slots :
              (reqs[s].op = "create_client" /\ reqs'[s] = Idle /\ last' = 403) =>
                  /\ reqs[s].plan = "free"
                  /\ Cardinality(ActiveClients(reqs[s].user)) >= FreeClientLimit]_vars

\* C12 witness: a free tenant with 2 active clients was refused a further client
C12_Witness ==
    /\ Quiescent
    /\ last = 403
    /\ \E u \in Users : /\ users[u].plan = "free"
                        /\ Cardinality(ActiveClients(u)) = FreeClientLimit

\* C13: no step changes reminder_count or reminder_sent_at of an invoice that is
\* draft, paid or cancelled, and a step that changes the reminder_count of a
\* pending or overdue invoice adds exactly 1.
C13_RemindOnlyPendingOverdue ==
    [][\A i \in invoices : \A j \in invoices' : j.id = i.id =>
          IF i.status \in {"draft", "paid", "cancelled"}
          THEN /\ j.reminder_count = i.reminder_count
               /\ j.reminder_sent_at = i.reminder_sent_at
          ELSE j.reminder_count \in {i.reminder_count, i.reminder_count + 1}]_vars

\* C14: a step of send changes the status of an invoice only from draft to
\* pending, and only when the invoice has at least one line item.
C14_SendNeedsItems ==
    [][\A s \in Slots : reqs[s].op = "send" =>
          \A i \in invoices : \A j \in invoices' :
              (j.id = i.id /\ j.status # i.status) =>
                  /\ i.status = "draft"
                  /\ j.status = "pending"
                  /\ ItemsOf(i.id) # {}]_vars

\* C15: every line item and every payment record references a stored invoice;
\* a delete that reads its invoice as paid answers 400 and changes no table;
\* the delete step removes the invoice with all its line items and payment
\* records.
C15_DeleteCascades ==
    /\ [](/\ \A r \in invoice_items : r.invoice_id \in InvoiceIds
          /\ \A k \in DOMAIN payments : payments[k].invoice_id \in InvoiceIds)
    /\ [][\A s \in Slots :
              ( /\ At(s, "delete", "fetch")
                /\ reqs'[s] # reqs[s]
                /\ \E i \in invoices : /\ i.id = reqs[s].id
                                       /\ i.user_id = reqs[s].user
                                       /\ i.status = "paid" ) =>
                  /\ last' = 400
                  /\ reqs'[s] = Idle
                  /\ UNCHANGED << invoices, invoice_items, payments >>]_vars
    /\ [][\A s \in Slots : (At(s, "delete", "delete") /\ reqs'[s] # reqs[s]) =>
              /\ \A j \in invoices' : j.id # reqs[s].id
              /\ \A r \in invoice_items' : r.invoice_id # reqs[s].id
              /\ \A k \in DOMAIN payments' : payments'[k].invoice_id # reqs[s].id]_vars

\* C15 witness: an invoice whose creation completed was deleted while a payment
\* intent for it exists
C15_Witness ==
    /\ Quiescent
    /\ last = 200
    /\ \E k \in DOMAIN audit_logs :
          /\ audit_logs[k].action = "INVOICE_CREATED"
          /\ audit_logs[k].entity_id \notin InvoiceIds
          /\ \E pi \in payment_intents : pi.metadata.invoice_id = audit_logs[k].entity_id

\* the audit entries written for the creation of invoice id
CreationAudits(log, id) ==
    { k \in DOMAIN log : log[k].action = "INVOICE_CREATED" /\ log[k].entity_id = id }

NamesForeign(r) ==
    \/ /\ r.op \in {"update", "send", "remind", "mark_paid", "delete", "invoice_payment"}
       /\ \E i \in invoices : i.id = r.id /\ i.user_id # r.user
    \/ /\ r.op = "create"
       /\ \E c \in clients : c.id = r.body.client_id /\ c.user_id # r.user
    \/ /\ r.op = "delete_client"
       /\ \E c \in clients : c.id = r.body.client /\ c.user_id # r.user

\* C17: a call that names an invoice or client of another tenant returns 404, and
\* no step of it changes a client, invoice, line item or payment record.
C17_CrossTenantNotFound ==
    [][\A s \in Slots : (reqs[s] # Idle /\ NamesForeign(reqs[s]) /\ reqs'[s] # reqs[s]) =>
          /\ UNCHANGED << clients, invoices, invoice_items, payments >>
          /\ reqs'[s] = Idle => last' = 404]_vars

\* C18: every invoice references a stored client; a step removes a client row
\* only when no invoice references it, and a delete that counted invoices of
\* the client only deactivates it.
C18_InvoiceClientExists ==
    /\ [](\A i \in invoices : \E c \in clients : c.id = i.client_id)
    /\ [][\A c \in clients :
              (\A d \in clients' : d.id # c.id) =>
                  /\ \A i \in invoices : i.client_id # c.id
                  /\ \A i \in invoices' : i.client_id # c.id]_vars
    /\ [][\A s \in Slots : (At(s, "delete_client", "deactivate") /\ reqs'[s] # reqs[s]) =>
              /\ {c.id : c \in clients'} = {c.id : c \in clients}
              /\ \A c \in clients' : c.id = reqs[s].body.client /\ c.user_id = reqs[s].user
                                        => ~ c.is_active]_vars

\* C18 witness: a client delete that counted no invoice is about to remove the
\* row while a create-invoice for that client has inserted its invoice
C18_Witness ==
    \E s, t \in Slots :
        /\ At(s, "delete_client", "delete")
        /\ reqs[t].op = "create" /\ reqs[t].pc \in {"items", "audit"}
        /\ reqs[t].body.client_id = reqs[s].body.client
        /\ reqs[t].user = reqs[s].user
        /\ \E i \in invoices : i.id = reqs[t].id /\ i.client_id = reqs[s].body.client

\* C19: when a customer.subscription.deleted event has been handled, every
\* subscriptions row with the event's subscription id is cancelled, and every
\* tenant holding the event's customer id is on the free plan with no
\* subscription link, whether or not the event's metadata names the tenant.
C19_SubscriptionDeleted ==
    [][\A s \in Slots :
          (At(s, "subscription_deleted", "user") /\ reqs'[s] = Idle) =>
              /\ \A r \in subscriptions' :
                     r.stripe_subscription_id = reqs[s].body.id => r.status = "cancelled"
              /\ \A u \in UsersOfCustomer(reqs[s].body.customer) :
                     /\ users'[u].plan = "free"
                     /\ users'[u].stripe_subscription_id = NullText]_vars

\* C19 happens: a deleted event has been handled for a tenant
\* whose subscription row was active and who was on a paid plan
C19_Witness ==
    /\ Quiescent
    /\ \E r \in subscriptions :
           /\ r.status = "cancelled" /\ r.cancelled_at # NULL
           /\ r.user_id = "u1" /\ r.stripe_subscription_id = SubscriptionOf("u1")
    /\ users["u1"].plan = "free"
    /\ users["u1"].stripe_subscription_id = NullText

\* C20: when a customer.subscription.created or updated event that identifies a
\* tenant (by its metadata user id, else by its customer id) has been handled,
\* exactly one subscriptions row has the event's subscription id and it belongs
\* to that tenant; and the handler changes a users row only when the event's
\* status is active or trialing.
C20_SubscriptionUpserted ==
    [][\A s \in Slots :
          (reqs[s].op = "subscription_update" /\ reqs'[s] = Idle) =>
              LET e == reqs[s].body
                  tenants == IF e.metadata.user_id # UndefinedText
                             THEN {e.metadata.user_id}
                             ELSE UsersOfCustomer(e.customer)
                  rows == {r \in subscriptions' : r.stripe_subscription_id = e.id}
              IN  /\ tenants # {} =>
                         /\ Cardinality(rows) = 1
                         /\ \A r \in rows : r.user_id \in tenants
                  /\ users' # users => e.status \in {"active", "trialing"}]_vars

\* the tenant has a subscriptions row with status active
HasActiveSubscription(u) ==
    \E r \in subscriptions : r.user_id = u /\ r.status = "active"

\* C21: whenever every delivered event (checkout completed, subscription
\* created, updated or deleted, payment failed) has been handled, a tenant on
\* the pro or business plan has a subscriptions row with status active, and a
\* tenant without an active row is on the free plan.
C21_PlanIsProjection ==
    Quiescent =>
        \A u \in Users :
            /\ users[u].plan \in {"pro", "business"} => HasActiveSubscription(u)
            /\ ~ HasActiveSubscription(u) => users[u].plan = "free"

\* C22: whenever every delivered subscription event has been handled, each
\* tenant has at most one subscriptions row with status active, and no two
\* subscriptions rows share a stripe_subscription_id.
C22_OneActiveSubscription ==
    Quiescent =>
        /\ \A u \in Users :
               Cardinality({r \in subscriptions : r.user_id = u /\ r.status = "active"}) <= 1
        /\ \A r, q \in subscriptions :
               r.stripe_subscription_id = q.stripe_subscription_id => r = q

\* C23: an event of a type the route has no case for is answered 200
\* (received: true), and handling it changes no users, subscriptions,
\* invoices, invoice_items, payments or audit_logs row.
C23_UnhandledIgnored ==
    [][\A s \in Slots :
          (reqs[s].op = "unhandled" /\ reqs'[s] # reqs[s]) =>
              /\ reqs'[s] = Idle
              /\ last' = 200
              /\ UNCHANGED << users, clients, subscriptions, invoices, invoice_items,
                              payments, audit_logs >>]_vars

\* C23 happens: the route holds an event of a type it has no case for, after
\* earlier events have left subscriptions and audit rows it could disturb
C23_Witness ==
    \E s \in Slots :
        /\ At(s, "unhandled", "respond")
        /\ reqs[s].body.type \notin HandledTypes
        /\ subscriptions # {}
        /\ audit_logs # << >>
        /\ \E u \in Users : users[u].plan # "free"

\* C24: the write of send does not take an invoice out of paid: when send read
\* the invoice as draft and a mark-paid call for it has completed (the invoice
\* is paid and its payment is recorded) before send writes, the invoice is
\* still paid after the write.
C24_SendKeepsPaid ==
    [][\A s \in Slots :
          (At(s, "send", "update") /\ reqs'[s] # reqs[s]) =>
              \A i \in invoices :
                  (/\ i.id = reqs[s].id
                   /\ i.status = "paid"
                   /\ CompletedPayments(payments, i.id) # << >>
                   /\ \A t \in Slots : ~ (reqs[t].op = "mark_paid" /\ reqs[t].id = i.id)) =>
                      \E j \in invoices' : j.id = i.id /\ j.status = "paid"]_vars

\* C25: with calls made one at a time, also after the tenant has deleted some
\* of its invoices, the insert of a create for a valid client within the plan
\* limit is accepted: the number computed for the new invoice is not the
\* number of a surviving invoice.
C25_CreateAfterDelete ==
    [][\A s \in Slots :
          (At(s, "create", "insert") /\ reqs'[s] # reqs[s]) =>
              /\ UniqueNumber(reqs[s].user, reqs[s].snap.invoice_number)
              /\ reqs'[s].pc = "items"]_vars

\* C26: the write of delete does not remove an invoice that has been marked
\* paid: when the invoice is paid and its payment is recorded before delete
\* writes, the invoice and its payments are still stored after the write.
C26_DeleteKeepsPaid ==
    [][\A s \in Slots :
          (At(s, "delete", "delete") /\ reqs'[s] # reqs[s]) =>
              \A i \in invoices :
                  (/\ i.id = reqs[s].id
                   /\ i.status = "paid"
                   /\ CompletedPayments(payments, i.id) # << >>) =>
                      /\ i \in invoices'
                      /\ PaymentsIn(payments', i.id) = PaymentsOf(i.id)]_vars

\* C27: once a customer.subscription.deleted event has been handled for a
\* subscription (its row carries cancelled_at), handling a created or updated
\* event for the same subscription id leaves the row cancelled and changes no
\* plan in users.
C27_DeletedStaysCancelled ==
    [][\A s \in Slots :
          (reqs[s].op = "subscription_update" /\ reqs'[s] # reqs[s]) =>
              \A r \in subscriptions :
                  (/\ r.stripe_subscription_id = reqs[s].body.id
                   /\ r.cancelled_at # NULL) =>
                      /\ \E q \in subscriptions' :
                             /\ q.stripe_subscription_id = r.stripe_subscription_id
                             /\ q.status = "cancelled"
                      /\ \A u \in Users : users'[u].plan = users[u].plan]_vars

\* C28: a stripe_customer_id stored for a tenant is never replaced by a
\* create-checkout-session call, so the customer id a tenant held keeps
\* resolving to that tenant.
C28_CustomerIdKept ==
    [][\A u \in Users :
          users[u].stripe_customer_id # NullText =>
              /\ users'[u].stripe_customer_id = users[u].stripe_customer_id
              /\ u \in UsersOfCustomer(users[u].stripe_customer_id)']_vars

\* C29: an update with items whose replacement rows or whose row update the
\* store refuses reports an error and leaves the invoice with the line items,
\* subtotal, tax_amount and total it had before the call.
C29_UpdateAllOrNothing ==
    [][\A s \in Slots :
          (/\ At(s, "update", "update")
           /\ reqs[s].body.has_items
           /\ reqs'[s] = Idle
           /\ (last' >= 400 \/ reqs[s].snap.insert_error)) =>
              /\ last' >= 400
              /\ {r \in invoice_items' : r.invoice_id = reqs[s].id}
                     = reqs[s].snap.before.items
              /\ \A i \in invoices' :
                     i.id = reqs[s].id =>
                         /\ i.subtotal = reqs[s].snap.before.existing.subtotal
                         /\ i.tax_amount = reqs[s].snap.before.existing.tax_amount
                         /\ i.total = reqs[s].snap.before.existing.total]_vars

\* C30: every remind call that completes on a stored invoice raises its
\* reminder_count by one, so n completed calls raise it by n in any
\* interleaving.
C30_NoLostReminder ==
    [][\A s \in Slots :
          (At(s, "remind", "update") /\ reqs'[s] = Idle) =>
              \A i \in invoices :
                  i.id = reqs[s].id =>
                      \E j \in invoices' :
                          j.id = i.id /\ j.reminder_count = i.reminder_count + 1]_vars

====
